---- MODULE Spec2Model ----
(***************************************************************************)
(* A model of src/bin/memvid.rs: the command-line front end of the memvid  *)
(* store (path resolution, argument parsing, hybrid search with Reciprocal *)
(* Rank Fusion, and the embed-all backfill).                               *)
(*                                                                         *)
(* Strings are sequences of atoms; an atom is an indivisible run of        *)
(* characters ("~", "/", " ", a word).  The store (crate memvid_core), the *)
(* embedder and the process environment are inputs: every call into them   *)
(* is a nondeterministic choice among the results its signature allows.    *)
(***************************************************************************)
EXTENDS Integers, Sequences, FiniteSets, TLC

VARIABLES
    pc,             \* position of the single thread of the process
    result,         \* the value of `result` in main: "none", "ok" or "err"
    ops,            \* store operations performed so far, in call order
    top_k,          \* cmd_search: top_k
    lex_hits,       \* cmd_search: lex_response.hits
    vec_hits,       \* cmd_search: vec_response.hits
    final_hits,     \* cmd_search: final_hits
    arm,            \* cmd_search: the arm that produced final_hits ("" before)
    feature_vec,    \* whether the build has feature "vec"
    disk,           \* the store file: whether it exists, and its committed frames
    mem,            \* cmd_embed_all: the frames as the open handle `mem` holds them
    frames_to_embed,\* cmd_embed_all: frame ids of frames_to_embed, in push order
    embed_i,        \* cmd_embed_all: tasks the embedding loop has processed
    embeddings,     \* cmd_embed_all: frame ids of `embeddings`, in push order
    warnings,       \* cmd_embed_all: frame ids of the "Failed to embed" warnings
    added,          \* cmd_embed_all: the count add_embeddings returned (0 before)
    prev,           \* the previous embed-all run on this store, <<>> when none
    raw_args,       \* main: raw_args (env::args()); raw_args[1] is the program name
    args,           \* main: args, the arguments without the global flag
    override,       \* MEMORY_PATH_OVERRIDE: <<>> when unset, <<path>> when set
    env_home,       \* $HOME: <<>> when unset, <<value>> when set
    env_memory,     \* $MEMVID_MEMORY: <<>> when unset, <<value>> when set
    stdin,          \* standard input: <<"ok", text>>, or <<"err", <<>>>> when unreadable
    exit_code,      \* the exit code of the process, -1 while it runs
    call,           \* the command handler main calls, with its arguments
    path,           \* the last value get_memory_path() returned: <<>> or <<path>>
    printed         \* the messages printed, in order: <<stream, message>>

searchVars == <<top_k, lex_hits, vec_hits, final_hits, arm>>

embedVars == <<mem, frames_to_embed, embed_i, embeddings, warnings, added>>

\* what main sets before it calls a command handler
mainVars == <<raw_args, args, override, env_home, env_memory, stdin, exit_code, call>>

vars == <<pc, result, ops, top_k, lex_hits, vec_hits, final_hits, arm, feature_vec,
          disk, mem, frames_to_embed, embed_i, embeddings, warnings, added, prev,
          raw_args, args, override, env_home, env_memory, stdin, exit_code, call,
          path, printed>>

(***************************************************************************)
(* Bounds of the model.                                                    *)
(***************************************************************************)
MaxHits == 2        \* longest hit list the store returns
NumIds == 3         \* frame ids that occur in hit lists: 1..NumIds
MaxTopK == 3        \* largest top_k
MaxFrames == 3      \* most frames in a store

FrameIds == 1..NumIds

(***************************************************************************)
(* Generic helpers.                                                        *)
(***************************************************************************)
Min(a, b) == IF a < b THEN a ELSE b

\* iter.take(n).collect()
Take(s, n) == SubSeq(s, 1, Min(n, Len(s)))

\* all sequences over S of length at most n
SeqsUpTo(S, n) == UNION {[1..m -> S] : m \in 0..n}

\* all orders in which the elements of the finite set S can be enumerated
Perms(S) == {p \in [1..Cardinality(S) -> S] : \A x \in S : \E i \in DOMAIN p : p[i] = x}

RECURSIVE Pow2(_)
Pow2(n) == IF n = 0 THEN 1 ELSE 2 * Pow2(n - 1)

RECURSIVE Ilog2(_)
Ilog2(q) == IF q < 2 THEN 0 ELSE 1 + Ilog2(q \div 2)

(***************************************************************************)
(* IEEE-754 binary32 arithmetic on the values merge_results_rrf computes.  *)
(* A positive f32 v is held as the integer v * 2^30.  Every value that     *)
(* occurs is at least 2^-7 (rank <= 68), where one unit in the last place  *)
(* is 2^-30 or coarser, so the integers are exact.                         *)
(***************************************************************************)
F32One == Pow2(30)

\* num/den rounded to the nearest f32, ties to even (24-bit significand)
F32Round(num, den) ==
    LET e    == Ilog2(num \div den)
        ulp  == IF e > 23 THEN Pow2(e - 23) ELSE 1
        d    == den * ulp
        m    == num \div d
        rem  == num % d
        up   == (2 * rem > d) \/ (2 * rem = d /\ m % 2 = 1)
    IN  (IF up THEN m + 1 ELSE m) * ulp

\* a + b in f32
F32Add(a, b) == IF a = 0 THEN b ELSE IF b = 0 THEN a ELSE F32Round(a + b, 1)

\* const K: f32 = 60.0
K == 60

\* 1.0 / (K + (rank + 1) as f32), rank the 0-based position: pos = rank + 1
RrfScore(pos) == F32Round(F32One, K + pos)

(***************************************************************************)
(* memvid_core::SearchHit.  `src` and `rank` stand for the title and text  *)
(* of the copy the store returned; `score` is <<"store", 0>> for the       *)
(* store's own score and <<"rrf", v>> once replaced by a fused score.      *)
(***************************************************************************)
Hit(id, src, pos) == [frame_id |-> id, src |-> src, rank |-> pos, score |-> <<"store", 0>>]

HitList(ids, src) == [i \in 1..Len(ids) |-> Hit(ids[i], src, i)]

IdsOf(hits) == [i \in 1..Len(hits) |-> hits[i].frame_id]

(***************************************************************************)
(* Strings.  A string is a sequence of atoms; the atoms "~", "/", "=", "+",*)
(* " " and the digits are single characters, any other atom is a run of    *)
(* characters that holds none of these.                                    *)
(***************************************************************************)
\* one-atom strings
Str(a) == <<a>>

\* tokens.join(" ")
RECURSIVE JoinSpace(_)
JoinSpace(tokens) ==
    IF tokens = <<>> THEN <<>>
    ELSE IF Len(tokens) = 1 THEN tokens[1]
         ELSE tokens[1] \o <<" ">> \o JoinSpace(Tail(tokens))

\* s.trim().is_empty()
TrimIsEmpty(s) == \A i \in DOMAIN s : s[i] = " "

\* p.starts_with(c)
StartsWith(p, c) == p # <<>> /\ p[1] = c

\* p.replacen(c, with, 1): the first c of p replaced
RECURSIVE ReplaceFirst(_, _, _)
ReplaceFirst(p, c, with) ==
    IF p = <<>> THEN <<>>
    ELSE IF Head(p) = c THEN with \o Tail(p)
         ELSE <<Head(p)>> \o ReplaceFirst(Tail(p), c, with)

\* s.split_once(c): <<>> for None, <<before, after>> for Some
RECURSIVE SplitOnce(_, _, _)
SplitOnce(s, c, before) ==
    IF s = <<>> THEN <<>>
    ELSE IF Head(s) = c THEN <<before, Tail(s)>>
         ELSE SplitOnce(Tail(s), c, Append(before, Head(s)))

Digits == {"0", "1", "2", "3", "4", "5", "6", "7", "8", "9"}

DigitValue(d) ==
    CASE d = "0" -> 0 [] d = "1" -> 1 [] d = "2" -> 2 [] d = "3" -> 3 [] d = "4" -> 4
      [] d = "5" -> 5 [] d = "6" -> 6 [] d = "7" -> 7 [] d = "8" -> 8 [] d = "9" -> 9

RECURSIVE Decimal(_, _)
Decimal(s, acc) == IF s = <<>> THEN acc ELSE Decimal(Tail(s), 10 * acc + DigitValue(Head(s)))

\* s.parse::<usize>() and s.parse::<u64>(): <<>> for Err, <<n>> for Ok(n).  An
\* optional "+" and then one or more digits; the tokens of the model are far
\* below the 64-bit overflow
ParseUnsigned(s) ==
    LET digits == IF StartsWith(s, "+") THEN Tail(s) ELSE s
    IN  IF digits # <<>> /\ \A i \in DOMAIN digits : digits[i] \in Digits
        THEN <<Decimal(digits, 0)>>
        ELSE <<>>

(***************************************************************************)
(* get_memory_path                                                         *)
(***************************************************************************)
\* env::var("HOME").unwrap_or_else(|_| ".".to_string())
HomeOrDot(home) == IF home = <<>> THEN Str(".") ELSE home[1]

\* lines 20-25 and 581-586: the leading '~' of p replaced by the home directory
ExpandTilde(p, home) ==
    IF StartsWith(p, "~") THEN ReplaceFirst(p, "~", HomeOrDot(home)) ELSE p

\* PathBuf::join(base, name) for a relative `name`: a separator is put in
\* unless base is empty or ends with one
PathJoin(base, name) ==
    IF base = <<>> \/ base[Len(base)] = "/" THEN base \o name
    ELSE base \o <<"/">> \o name

\* lines 29-30: PathBuf::from(home).join(".memvid").join("claude.mv2")
DefaultPath(home) == PathJoin(PathJoin(HomeOrDot(home), Str(".memvid")), Str("claude.mv2"))

\* a get_memory_path that reads the environment before the override
GetMemoryPathEnvFirst(ov, memory, home) ==
    IF memory # <<>> THEN ExpandTilde(memory[1], home)
    ELSE IF ov # <<>> THEN ov[1]
         ELSE DefaultPath(home)

\* get_memory_path, given MEMORY_PATH_OVERRIDE, $MEMVID_MEMORY and $HOME
GetMemoryPath(ov, memory, home) ==
    IF ov # <<>> THEN ov[1]
    ELSE IF memory # <<>> THEN ExpandTilde(memory[1], home)
         ELSE DefaultPath(home)

\* path.parent(): <<>> for None, <<parent>> for Some.  None for the empty path
\* and for a path of separators only
RECURSIVE DropLastComponent(_)
DropLastComponent(p) ==
    IF p = <<>> THEN <<>>
    ELSE IF p[Len(p)] = "/" THEN p
         ELSE DropLastComponent(SubSeq(p, 1, Len(p) - 1))

RECURSIVE DropTrailingSeparators(_)
DropTrailingSeparators(p) ==
    IF p = <<>> \/ p[Len(p)] # "/" THEN p
    ELSE DropTrailingSeparators(SubSeq(p, 1, Len(p) - 1))

Parent(p) ==
    LET body == DropTrailingSeparators(p)
        dir  == DropLastComponent(body)
    IN  IF body = <<>> THEN <<>>
        ELSE IF dir = <<>> THEN <<dir>>
             ELSE IF DropTrailingSeparators(dir) = <<>> THEN <<Str("/")>>
                  ELSE <<DropTrailingSeparators(dir)>>

(***************************************************************************)
(* merge_results_rrf                                                       *)
(***************************************************************************)
\* *scores.entry(hit.frame_id).or_insert(0.0) += rrf_score, for hits[i..]
RECURSIVE AddScores(_, _, _)
AddScores(scores, hits, i) ==
    IF i > Len(hits) THEN scores
    ELSE LET id  == hits[i].frame_id
             old == IF id \in DOMAIN scores THEN scores[id] ELSE 0
             new == F32Add(old, RrfScore(i))
         IN  AddScores([x \in DOMAIN scores \cup {id} |-> IF x = id THEN new ELSE scores[x]],
                       hits, i + 1)

\* hits_by_id.entry(hit.frame_id).or_insert_with(|| hit.clone()), for hits[i..]
RECURSIVE AddHits(_, _, _)
AddHits(byId, hits, i) ==
    IF i > Len(hits) THEN byId
    ELSE LET id == hits[i].frame_id
         IN  AddHits([x \in DOMAIN byId \cup {id} |->
                          IF x \in DOMAIN byId THEN byId[x] ELSE hits[i]],
                     hits, i + 1)

EmptyMap == [x \in {} |-> 0]

\* the map `scores` after both loops
RrfScores(lex, vec) == AddScores(AddScores(EmptyMap, lex, 1), vec, 1)

\* the map `hits_by_id` after both loops
RrfHitsById(lex, vec) == AddHits(AddHits(EmptyMap, lex, 1), vec, 1)

\* one step of the stable sort: x goes after every element that does not
\* compare greater, under |a, b| b.1.partial_cmp(&a.1)
RECURSIVE InsertByScore(_, _, _)
InsertByScore(sorted, x, scores) ==
    IF sorted = <<>> THEN <<x>>
    ELSE IF scores[Head(sorted)] >= scores[x]
         THEN <<Head(sorted)>> \o InsertByScore(Tail(sorted), x, scores)
         ELSE <<x>> \o sorted

\* scored.sort_by(...): a stable sort by descending score
RECURSIVE SortByScore(_, _)
SortByScore(scored, scores) ==
    IF scored = <<>> THEN <<>>
    ELSE InsertByScore(SortByScore(SubSeq(scored, 1, Len(scored) - 1), scores),
                       scored[Len(scored)], scores)

\* the filter_map over the sorted pairs: seen.insert, hits_by_id.remove,
\* hit.score = Some(rrf_score)
RECURSIVE FilterMap(_, _, _, _)
FilterMap(sorted, seen, byId, scores) ==
    IF sorted = <<>> THEN <<>>
    ELSE LET id == Head(sorted)
         IN  IF id \notin seen /\ id \in DOMAIN byId
             THEN <<[byId[id] EXCEPT !.score = <<"rrf", scores[id]>>]>>
                  \o FilterMap(Tail(sorted), seen \cup {id},
                               [x \in DOMAIN byId \ {id} |-> byId[x]], scores)
             ELSE FilterMap(Tail(sorted), seen \cup {id}, byId, scores)

\* a merge that sorts the hits of the two lists, not the entries of `scores`
MergeResultsRrfOverInputs(lex, vec, k, order) ==
    LET scores == RrfScores(lex, vec)
        byId   == RrfHitsById(lex, vec)
        sorted == SortByScore(IdsOf(lex) \o IdsOf(vec), scores)
    IN  Take([i \in 1..Len(sorted) |->
                 [byId[sorted[i]] EXCEPT !.score = <<"rrf", scores[sorted[i]]>>]], k)

\* merge_results_rrf(lex_hits, vec_hits, top_k); `order` is the order in which
\* scores.into_iter() yields the map's entries (std HashMap: unspecified, and
\* seeded per process)
MergeResultsRrf(lex, vec, k, order) ==
    LET scores == RrfScores(lex, vec)
        byId   == RrfHitsById(lex, vec)
        sorted == SortByScore(order, scores)
    IN  Take(FilterMap(sorted, {}, byId, scores), k)

(***************************************************************************)
(* cmd_search, from its entry (pc = "cmd_search") to its return.           *)
(***************************************************************************)
\* the hit lists a search of the store can return
HitLists(src) == {HitList(ids, src) : ids \in SeqsUpTo(FrameIds, MaxHits)}

\* a store operation in the log `ops`: its name, for add_embeddings the frame
\* ids of the pairs passed, and whether it returned Ok
Op(name, ok) == <<name, <<>>, ok>>

\* the last logged operation is `name` and it returned Err
LastFailed(log, names) ==
    log # <<>> /\ log[Len(log)][1] \in names /\ ~log[Len(log)][3]

\* the names of the logged operations, in call order
OpNames(log) == [i \in 1..Len(log) |-> log[i][1]]

\* return from a command handler with the given Result
Return(r) == /\ pc' = "returned"
             /\ result' = r

\* a fallback that forgets .take(top_k)
LexOnlyUntruncated(hits, k) == hits

\* lex_response.hits.into_iter().take(top_k).collect()
LexOnly(hits, k) == Take(hits, k)

\* lines 99-106: path.exists(), Memvid::open(&path)?
CmdSearchOpen ==
    /\ pc = "cmd_search"
    /\ path' = <<GetMemoryPath(override, env_memory, env_home)>>
    /\ IF ~disk.exists
       THEN Return("ok") /\ UNCHANGED <<ops, searchVars>>
       ELSE \E opened \in BOOLEAN :
               /\ ops' = Append(ops, Op("open", opened))
               /\ IF opened
                  THEN pc' = "search_lex" /\ UNCHANGED result
                  ELSE Return("err")
               /\ UNCHANGED searchVars
    /\ UNCHANGED <<feature_vec, disk, embedVars, prev, mainVars, printed>>

\* lines 109-123 and 155-156: mem.search(request)?
CmdSearchLex ==
    /\ pc = "search_lex"
    /\ \/ /\ ops' = Append(ops, Op("search", FALSE))
          /\ Return("err")
          /\ UNCHANGED searchVars
       \/ \E hits \in HitLists("lex") :
            /\ ops' = Append(ops, Op("search", TRUE))
            /\ lex_hits' = hits
            /\ IF feature_vec
               THEN /\ pc' = "search_stats"
                    /\ UNCHANGED <<result, final_hits, arm>>
               ELSE /\ final_hits' = LexOnly(hits, top_k)
                    /\ arm' = "no_feature"
                    /\ Return("ok")
            /\ UNCHANGED <<top_k, vec_hits>>
    /\ UNCHANGED <<feature_vec, disk, embedVars, prev, mainVars, path, printed>>

\* lines 128-129 and 150-152: mem.stats()?, stats.has_vec_index
CmdSearchStats ==
    /\ pc = "search_stats"
    /\ \/ /\ ops' = Append(ops, Op("stats", FALSE))
          /\ Return("err")
          /\ UNCHANGED searchVars
       \/ \E has_vec_index \in BOOLEAN :
            /\ ops' = Append(ops, Op("stats", TRUE))
            /\ IF has_vec_index
               THEN pc' = "search_embedder" /\ UNCHANGED <<result, searchVars>>
               ELSE /\ final_hits' = LexOnly(lex_hits, top_k)
                    /\ arm' = "no_index"
                    /\ Return("ok")
                    /\ UNCHANGED <<top_k, lex_hits, vec_hits>>
    /\ UNCHANGED <<feature_vec, disk, embedVars, prev, mainVars, path, printed>>

\* lines 130-131 and 148: get_embedder()
CmdSearchEmbedder ==
    /\ pc = "search_embedder"
    /\ \E loaded \in BOOLEAN :
          IF loaded
          THEN pc' = "search_encode" /\ UNCHANGED <<result, searchVars>>
          ELSE /\ final_hits' = LexOnly(lex_hits, top_k)
               /\ arm' = "embedder_failed"
               /\ Return("ok")
               /\ UNCHANGED <<top_k, lex_hits, vec_hits>>
    /\ UNCHANGED <<ops, feature_vec, disk, embedVars, prev, mainVars, path, printed>>

\* lines 132-133 and 145: embedder.encode_text(query)
CmdSearchEncode ==
    /\ pc = "search_encode"
    /\ \E encoded \in BOOLEAN :
          IF encoded
          THEN pc' = "search_vec" /\ UNCHANGED <<result, searchVars>>
          ELSE /\ final_hits' = LexOnly(lex_hits, top_k)
               /\ arm' = "encode_failed"
               /\ Return("ok")
               /\ UNCHANGED <<top_k, lex_hits, vec_hits>>
    /\ UNCHANGED <<ops, feature_vec, disk, embedVars, prev, mainVars, path, printed>>

\* lines 134-143: mem.vec_search_with_embedding(..), then merge_results_rrf
CmdSearchVec ==
    /\ pc = "search_vec"
    /\ \/ /\ ops' = Append(ops, Op("vec_search", FALSE))
          /\ final_hits' = LexOnly(lex_hits, top_k)
          /\ arm' = "vec_search_failed"
          /\ UNCHANGED vec_hits
       \/ \E hits \in HitLists("vec") :
            \E order \in Perms(DOMAIN RrfScores(lex_hits, hits)) :
              /\ ops' = Append(ops, Op("vec_search", TRUE))
              /\ vec_hits' = hits
              /\ final_hits' = MergeResultsRrf(lex_hits, hits, top_k, order)
              /\ arm' = "merged"
    /\ Return("ok")
    /\ UNCHANGED <<top_k, lex_hits, feature_vec, disk, embedVars, prev, mainVars, path, printed>>

InitSearchVars ==
    /\ lex_hits = <<>>
    /\ vec_hits = <<>>
    /\ final_hits = <<>>
    /\ arm = ""

\* a command handler entered with no override and no environment set
InitMainVars ==
    /\ raw_args = <<>>
    /\ args = <<>>
    /\ override = <<>>
    /\ env_home = <<>>
    /\ env_memory = <<>>
    /\ stdin = <<"ok", <<>>>>
    /\ exit_code = -1
    /\ call = <<>>

\* no store file, no frames
NoStore == [exists |-> FALSE, frames |-> <<>>]

\* a store file with no frames
EmptyStore == [exists |-> TRUE, frames |-> <<>>]

InitEmbedVars ==
    /\ mem = <<>>
    /\ frames_to_embed = <<>>
    /\ embed_i = 0
    /\ embeddings = <<>>
    /\ warnings = <<>>
    /\ added = 0

\* cmd_search(query, top_k) is entered with any top_k
InitSearch ==
    /\ pc = "cmd_search"
    /\ result = "none"
    /\ ops = <<>>
    /\ top_k \in 0..MaxTopK
    /\ feature_vec \in BOOLEAN
    /\ InitSearchVars
    /\ disk \in {NoStore, EmptyStore}
    /\ InitEmbedVars
    /\ prev = <<>>
    /\ InitMainVars
    /\ path = <<>>
    /\ printed = <<>>

NextSearch ==
    \/ CmdSearchOpen
    \/ CmdSearchLex
    \/ CmdSearchStats
    \/ CmdSearchEmbedder
    \/ CmdSearchEncode
    \/ CmdSearchVec

SpecSearch == InitSearch /\ [][NextSearch]_vars

(***************************************************************************)
(* The store as cmd_embed_all sees it.  A frame is [emb, text]:            *)
(*   emb  - what frame_embedding(id) returns: "some" for Ok(Some(_)),      *)
(*          "none" for Ok(None), "err" for Err(_);                         *)
(*   text - what frame_text_by_id(id) returns: "text" for Ok of a text     *)
(*          with a non-whitespace character, "blank" for Ok of an empty or *)
(*          whitespace-only text, "err" for Err(_).                        *)
(* Frame ids are 0 .. frame_count - 1.                                     *)
(***************************************************************************)
FrameStates == [emb : {"none", "some", "err"}, text : {"text", "blank", "err"}]

Stores == UNION {[0..(n - 1) -> FrameStates] : n \in 0..MaxFrames}

\* stats.frame_count
FrameCount(frames) == Cardinality(DOMAIN frames)

\* the elements of the sequence s
Range(s) == {s[i] : i \in DOMAIN s}

\* the subsequence of s of the elements in S
RECURSIVE Restrict(_, _)
Restrict(s, S) ==
    IF s = <<>> THEN <<>>
    ELSE IF Head(s) \in S THEN <<Head(s)>> \o Restrict(Tail(s), S)
         ELSE Restrict(Tail(s), S)

\* Memvid::add_embeddings(pairs) accepting the pairs of the frames in `accepted`
AddEmbeddings(frames, accepted) ==
    [id \in DOMAIN frames |->
        IF id \in accepted THEN [frames[id] EXCEPT !.emb = "some"] ELSE frames[id]]

(***************************************************************************)
(* cmd_embed_all, from its entry (pc = "cmd_embed_all") to its return.     *)
(***************************************************************************)
\* a scan that enqueues frames whatever frame_embedding returns
ScanIgnoringEmbeddings(frames, frame_id, total_frames) ==
    Restrict([i \in 1..(total_frames - frame_id) |-> frame_id + i - 1],
             {id \in DOMAIN frames : frames[id].text = "text"})

\* lines 476-489: the scan loop from frame_id on; the frame ids pushed
RECURSIVE Scan(_, _, _)
Scan(frames, frame_id, total_frames) ==
    IF frame_id >= total_frames THEN <<>>
    ELSE IF frames[frame_id].emb = "some"
         THEN Scan(frames, frame_id + 1, total_frames)
         ELSE IF frames[frame_id].text = "text"
              THEN <<frame_id>> \o Scan(frames, frame_id + 1, total_frames)
              ELSE Scan(frames, frame_id + 1, total_frames)

\* the store reads of the scan loop from frame_id on
RECURSIVE ScanOps(_, _, _)
ScanOps(frames, frame_id, total_frames) ==
    IF frame_id >= total_frames THEN <<>>
    ELSE IF frames[frame_id].emb = "some"
         THEN <<Op("frame_embedding", TRUE)>> \o ScanOps(frames, frame_id + 1, total_frames)
         ELSE <<Op("frame_embedding", frames[frame_id].emb # "err"),
                Op("frame_text_by_id", frames[frame_id].text # "err")>>
              \o ScanOps(frames, frame_id + 1, total_frames)

\* lines 456-464: path.exists(), get_embedder()?
EmbedAllStart ==
    /\ pc = "cmd_embed_all"
    /\ IF ~disk.exists
       THEN Return("ok")
       ELSE \E loaded \in BOOLEAN :
              IF loaded THEN pc' = "embed_open" /\ UNCHANGED result
              ELSE Return("err")
    /\ path' = <<GetMemoryPath(override, env_memory, env_home)>>
    /\ UNCHANGED <<ops, searchVars, feature_vec, disk, embedVars, prev, mainVars, printed>>

\* lines 467-469: Memvid::open(&path)?, mem.stats()?
EmbedAllOpen ==
    /\ pc = "embed_open"
    /\ \/ /\ ops' = Append(ops, Op("open", FALSE))
          /\ Return("err")
          /\ UNCHANGED mem
       \/ /\ mem' = disk.frames
          /\ \/ /\ ops' = ops \o <<Op("open", TRUE), Op("stats", FALSE)>>
                /\ Return("err")
             \/ /\ ops' = ops \o <<Op("open", TRUE), Op("stats", TRUE)>>
                /\ pc' = "embed_scan"
                /\ UNCHANGED result
    /\ UNCHANGED <<searchVars, feature_vec, disk, frames_to_embed, embed_i,
                   embeddings, warnings, added, prev, mainVars, path, printed>>

\* lines 474-495: the scan, and the return when nothing needs an embedding
EmbedAllScan ==
    /\ pc = "embed_scan"
    /\ frames_to_embed' = Scan(mem, 0, FrameCount(mem))
    /\ ops' = ops \o ScanOps(mem, 0, FrameCount(mem))
    /\ IF Len(frames_to_embed') = 0
       THEN Return("ok")
       ELSE pc' = "embed_encode" /\ UNCHANGED result
    /\ UNCHANGED <<searchVars, feature_vec, disk, mem, embed_i, embeddings,
                   warnings, added, prev, mainVars, path, printed>>

\* an embedding loop that propagates a provider failure (encode_text(text)?)
EmbedAllEncodeAborting ==
    /\ pc = "embed_encode"
    /\ LET frame_id == frames_to_embed[embed_i + 1]
       IN  \/ /\ embeddings' = Append(embeddings, frame_id)
              /\ embed_i' = embed_i + 1
              /\ IF embed_i' < Len(frames_to_embed)
                 THEN UNCHANGED <<pc, result>>
                 ELSE pc' = "embed_add" /\ UNCHANGED result
              /\ UNCHANGED warnings
           \/ /\ warnings' = Append(warnings, frame_id)
              /\ Return("err")
              /\ UNCHANGED <<embeddings, embed_i>>
    /\ UNCHANGED <<ops, searchVars, feature_vec, disk, mem, frames_to_embed,
                   added, prev, mainVars, path, printed>>

\* lines 504-530: one iteration of the embedding loop, and after the last
\* one the return when no embedding was generated
EmbedAllEncode ==
    /\ pc = "embed_encode"
    /\ LET frame_id == frames_to_embed[embed_i + 1]
       IN  \/ /\ embeddings' = Append(embeddings, frame_id)
              /\ UNCHANGED warnings
           \/ /\ warnings' = Append(warnings, frame_id)
              /\ UNCHANGED embeddings
    /\ embed_i' = embed_i + 1
    /\ IF embed_i' < Len(frames_to_embed)
       THEN UNCHANGED <<pc, result>>
       ELSE IF embeddings' = <<>>
            THEN Return("ok")
            ELSE pc' = "embed_add" /\ UNCHANGED result
    /\ UNCHANGED <<ops, searchVars, feature_vec, disk, mem, frames_to_embed,
                   added, prev, mainVars, path, printed>>

\* an add step that goes on to commit when add_embeddings failed
EmbedAllAddIgnoringError ==
    /\ pc = "embed_add"
    /\ \/ /\ ops' = Append(ops, <<"add_embeddings", embeddings, FALSE>>)
          /\ UNCHANGED <<mem, added>>
       \/ \E accepted \in SUBSET Range(embeddings) :
            /\ ops' = Append(ops, <<"add_embeddings", embeddings, TRUE>>)
            /\ mem' = AddEmbeddings(mem, accepted)
            /\ added' = Cardinality(accepted)
    /\ pc' = "embed_commit"
    /\ UNCHANGED result
    /\ UNCHANGED <<searchVars, feature_vec, disk, frames_to_embed, embed_i,
                   embeddings, warnings, prev, mainVars, path, printed>>

\* lines 532-533: mem.add_embeddings(embeddings)?
EmbedAllAdd ==
    /\ pc = "embed_add"
    /\ \/ /\ ops' = Append(ops, <<"add_embeddings", embeddings, FALSE>>)
          /\ Return("err")
          /\ UNCHANGED <<mem, added>>
       \/ \E accepted \in SUBSET Range(embeddings) :
            /\ ops' = Append(ops, <<"add_embeddings", embeddings, TRUE>>)
            /\ mem' = AddEmbeddings(mem, accepted)
            /\ added' = Cardinality(accepted)
            /\ pc' = "embed_commit"
            /\ UNCHANGED result
    /\ UNCHANGED <<searchVars, feature_vec, disk, frames_to_embed, embed_i,
                   embeddings, warnings, prev, mainVars, path, printed>>

\* lines 535-541: mem.commit()?
EmbedAllCommit ==
    /\ pc = "embed_commit"
    /\ \/ /\ ops' = Append(ops, Op("commit", FALSE))
          /\ Return("err")
          /\ UNCHANGED disk
       \/ /\ ops' = Append(ops, Op("commit", TRUE))
          /\ disk' = [disk EXCEPT !.frames = mem]
          /\ Return("ok")
    /\ UNCHANGED <<searchVars, feature_vec, embedVars, prev, mainVars, path, printed>>

\* what a later run can know of a finished run
RunSummary ==
    [result |-> result, frames_to_embed |-> frames_to_embed, warnings |-> warnings,
     added |-> added, disk |-> disk.frames]

\* the process has ended; embed-all is started again on the same store
EmbedAllAgain ==
    /\ pc = "returned"
    /\ prev' = <<RunSummary>>
    /\ pc' = "cmd_embed_all"
    /\ result' = "none"
    /\ ops' = <<>>
    /\ mem' = <<>>
    /\ frames_to_embed' = <<>>
    /\ embed_i' = 0
    /\ embeddings' = <<>>
    /\ warnings' = <<>>
    /\ added' = 0
    /\ UNCHANGED <<searchVars, feature_vec, disk, mainVars, path, printed>>

\* embed-all is started on any store (the command exists with feature "vec")
InitEmbedAll ==
    /\ pc = "cmd_embed_all"
    /\ result = "none"
    /\ ops = <<>>
    /\ top_k = 0
    /\ feature_vec = TRUE
    /\ InitSearchVars
    /\ \/ disk = NoStore
       \/ \E frames \in Stores : disk = [exists |-> TRUE, frames |-> frames]
    /\ InitEmbedVars
    /\ prev = <<>>
    /\ InitMainVars
    /\ path = <<>>
    /\ printed = <<>>

NextEmbedAll ==
    \/ EmbedAllStart
    \/ EmbedAllOpen
    \/ EmbedAllScan
    \/ EmbedAllEncode
    \/ EmbedAllAdd
    \/ EmbedAllCommit
    \/ EmbedAllAgain

SpecEmbedAll == InitEmbedAll /\ [][NextEmbedAll]_vars

(***************************************************************************)
(* main: the global --memory flag (lines 574-599).                         *)
(***************************************************************************)
GlobalFlags == {Str("--memory"), Str("-m")}

\* a cell that takes every value set
OnceLockOverwrite(cell, p) == <<p>>

\* MEMORY_PATH_OVERRIDE.set(p): the first value stays
OnceLockSet(cell, p) == IF cell = <<>> THEN <<p>> ELSE cell

\* a loop that skips the flag but not its value (i += 1 for i += 2)
RECURSIVE StripGlobalFlagKeepingValue(_, _, _, _, _)
StripGlobalFlagKeepingValue(raw, i, filtered, cell, home) ==
    IF i >= Len(raw) THEN [args |-> filtered, override |-> cell, missing |-> FALSE]
    ELSE IF raw[i + 1] \in GlobalFlags
         THEN IF i + 1 < Len(raw)
              THEN StripGlobalFlagKeepingValue(raw, i + 1, filtered,
                                               OnceLockSet(cell, ExpandTilde(raw[i + 2], home)),
                                               home)
              ELSE [args |-> filtered, override |-> cell, missing |-> TRUE]
         ELSE StripGlobalFlagKeepingValue(raw, i + 1, Append(filtered, raw[i + 1]), cell, home)

\* the loop of lines 577-597 from index i on (i counts from 0 as in the
\* source; raw[i + 1] is raw_args[i]); `missing` is the exit of line 592
RECURSIVE StripGlobalFlag(_, _, _, _, _)
StripGlobalFlag(raw, i, filtered, cell, home) ==
    IF i >= Len(raw) THEN [args |-> filtered, override |-> cell, missing |-> FALSE]
    ELSE IF raw[i + 1] \in GlobalFlags
         THEN IF i + 1 < Len(raw)
              THEN StripGlobalFlag(raw, i + 2, filtered,
                                   OnceLockSet(cell, ExpandTilde(raw[i + 2], home)), home)
              ELSE [args |-> filtered, override |-> cell, missing |-> TRUE]
         ELSE StripGlobalFlag(raw, i + 1, Append(filtered, raw[i + 1]), cell, home)

\* print: one more message on a stream
Say(stream, message) == printed' = Append(printed, <<stream, message>>)

\* std::process::exit(code)
Exit(code) == /\ pc' = "exited"
              /\ exit_code' = code

\* print_usage(): get_memory_path(), then the usage text on stderr
PrintUsage(before) ==
    /\ path' = <<GetMemoryPath(override, env_memory, env_home)>>
    /\ printed' = printed \o before \o <<<<"stderr", "usage">>>>

\* lines 571-599: the arguments without the global flag, the override set
ParseGlobalFlags ==
    /\ pc = "main"
    /\ LET r == StripGlobalFlag(raw_args, 1, <<raw_args[1]>>, override, env_home)
       IN  /\ override' = r.override
           /\ IF r.missing
              THEN /\ Say("stderr", "Missing path for --memory flag")
                   /\ Exit(1)
                   /\ UNCHANGED <<args, path>>
              ELSE /\ args' = r.args
                   /\ pc' = "dispatch"
                   /\ UNCHANGED <<exit_code, path, printed>>
    /\ UNCHANGED <<result, ops, searchVars, feature_vec, disk, embedVars, prev,
                   raw_args, env_home, env_memory, stdin, call>>

(***************************************************************************)
(* main: the command and its arguments (lines 601-725).  Indices count     *)
(* from 0 as in the source: a[i + 1] is args[i].                           *)
(***************************************************************************)
\* let mut top_k = 5
DefaultTopK == 5

\* args[i + 1].parse().unwrap_or(5)
UnparsedTopK == 5

\* args.get(2).and_then(|s| s.parse().ok()).unwrap_or(20)
DefaultListCount == 20

\* the exit code of a panic
PanicExitCode == 101

\* opt.unwrap_or(default), opt the <<>> or <<n>> of ParseUnsigned
UnwrapOr(opt, default) == IF opt = <<>> THEN default ELSE opt[1]

\* args[i..]
ArgsFrom(a, i) == SubSeq(a, i + 1, Len(a))

\* the loop of lines 614-645 from index i on; `error` is the message of the
\* exit taken, "" when the loop ends
RECURSIVE ParseSaveArgs(_, _, _, _, _)
ParseSaveArgs(a, i, title, tags, use_stdin) ==
    LET done(error, content) ==
            [error |-> error, title |-> title, tags |-> tags, content |-> content,
             use_stdin |-> use_stdin]
    IN  IF i >= Len(a) THEN done("", <<>>)
        ELSE IF a[i + 1] \in {Str("--title"), Str("-t")}
        THEN IF i + 1 < Len(a)
             THEN ParseSaveArgs(a, i + 2, <<a[i + 2]>>, tags, use_stdin)
             ELSE done("Missing title value", <<>>)
        ELSE IF a[i + 1] = Str("--tag")
        THEN IF i + 1 < Len(a)
             THEN LET kv == SplitOnce(a[i + 2], "=", <<>>)
                  IN  ParseSaveArgs(a, i + 2, title,
                                    IF kv # <<>> THEN Append(tags, kv) ELSE tags, use_stdin)
             ELSE done("Missing tag value", <<>>)
        ELSE IF a[i + 1] = Str("--stdin")
        THEN ParseSaveArgs(a, i + 1, title, tags, TRUE)
        ELSE done("", JoinSpace(ArgsFrom(a, i)))

\* io::stdin().read_to_string(&mut content): the input is appended to content
ReadToString(content, input) == content \o input

\* the loop of lines 665-682 from index i on
RECURSIVE ParseSearchArgs(_, _, _)
ParseSearchArgs(a, i, k) ==
    IF i >= Len(a) THEN [query |-> <<>>, top_k |-> k]
    ELSE IF a[i + 1] \in {Str("--top"), Str("-n")}
         THEN IF i + 1 < Len(a)
              THEN ParseSearchArgs(a, i + 2, UnwrapOr(ParseUnsigned(a[i + 2]), UnparsedTopK))
              ELSE ParseSearchArgs(a, i + 1, k)
         ELSE [query |-> JoinSpace(ArgsFrom(a, i)), top_k |-> k]

\* exit(1) after the messages
UsageExit(messages) ==
    /\ printed' = printed \o messages
    /\ Exit(1)
    /\ UNCHANGED <<call, top_k, path, result>>

\* print_usage() after the messages, then exit(1)
UsageExitWithHelp(messages) ==
    /\ PrintUsage(messages)
    /\ Exit(1)
    /\ UNCHANGED <<call, top_k, result>>

\* the handler at `entry` is called with the arguments c
CallHandler(entry, c) ==
    /\ pc' = entry
    /\ call' = c
    /\ UNCHANGED <<exit_code, printed, path, result>>

\* lines 607-659: "save"
DispatchSave ==
    LET r == ParseSaveArgs(args, 2, <<>>, <<>>, FALSE)
    IN  IF r.error # ""
        THEN UsageExit(<<<<"stderr", r.error>>>>)
        ELSE IF r.use_stdin /\ stdin[1] = "err"
        THEN /\ printed' = Append(printed, <<"stderr", "Failed to read stdin">>)
             /\ Exit(PanicExitCode)
             /\ UNCHANGED <<call, top_k, path, result>>
        ELSE LET content == IF r.use_stdin THEN ReadToString(r.content, stdin[2])
                            ELSE r.content
             IN  IF TrimIsEmpty(content)
                 THEN UsageExit(<<<<"stderr", "No content provided">>>>)
                 ELSE /\ CallHandler("cmd_save",
                                     [name |-> "save", title |-> r.title, tags |-> r.tags,
                                      content |-> content])
                      /\ UNCHANGED top_k

\* lines 660-690: "search" | "find"
DispatchSearch ==
    LET r == ParseSearchArgs(args, 2, DefaultTopK)
    IN  IF r.query = <<>>
        THEN UsageExit(<<<<"stderr", "No search query provided">>>>)
        ELSE /\ CallHandler("cmd_search", [name |-> "search", query |-> r.query])
             /\ top_k' = r.top_k

\* an inspect that takes 0 for an id that does not parse (unwrap_or(0))
DispatchInspectDefaultingId ==
    IF Len(args) < 3
    THEN UsageExit(<<<<"stderr", "Usage: memvid inspect <frame_id>">>>>)
    ELSE /\ CallHandler("cmd_inspect",
                        [name |-> "inspect", frame_id |-> UnwrapOr(ParseUnsigned(args[3]), 0)])
         /\ UNCHANGED top_k

\* lines 692-702: "inspect"
DispatchInspect ==
    IF Len(args) < 3
    THEN UsageExit(<<<<"stderr", "Usage: memvid inspect <frame_id>">>>>)
    ELSE IF ParseUnsigned(args[3]) = <<>>
         THEN UsageExit(<<<<"stderr", "Invalid frame ID">>>>)
         ELSE /\ CallHandler("cmd_inspect",
                             [name |-> "inspect", frame_id |-> ParseUnsigned(args[3])[1]])
              /\ UNCHANGED top_k

\* lines 601-725: no command, or the match on args[1]
Dispatch ==
    /\ pc = "dispatch"
    /\ IF Len(args) < 2 THEN UsageExitWithHelp(<<>>)
       ELSE IF args[2] = Str("save") THEN DispatchSave
       ELSE IF args[2] \in {Str("search"), Str("find")} THEN DispatchSearch
       ELSE IF args[2] = Str("stats")
       THEN CallHandler("cmd_stats", [name |-> "stats"]) /\ UNCHANGED top_k
       ELSE IF args[2] = Str("inspect") THEN DispatchInspect
       ELSE IF args[2] \in {Str("list"), Str("ls")}
       THEN /\ CallHandler("cmd_list_recent",
                           [name |-> "list",
                            count |-> IF Len(args) >= 3
                                      THEN UnwrapOr(ParseUnsigned(args[3]), DefaultListCount)
                                      ELSE DefaultListCount])
            /\ UNCHANGED top_k
       ELSE IF args[2] = Str("test-save-search")
       THEN CallHandler("cmd_test_save_search", [name |-> "test-save-search"])
            /\ UNCHANGED top_k
       ELSE IF feature_vec /\ args[2] = Str("doctor")
       THEN /\ CallHandler("cmd_doctor",
                           [name |-> "doctor",
                            rebuild_vec |-> \E i \in DOMAIN args : args[i] = Str("--rebuild-vec"),
                            rebuild_lex |-> \E i \in DOMAIN args : args[i] = Str("--rebuild-lex")])
            /\ UNCHANGED top_k
       ELSE IF feature_vec /\ args[2] = Str("embed-all")
       THEN CallHandler("cmd_embed_all", [name |-> "embed-all"]) /\ UNCHANGED top_k
       ELSE IF args[2] \in {Str("help"), Str("--help"), Str("-h")}
       THEN /\ PrintUsage(<<>>)
            /\ Return("ok")
            /\ UNCHANGED <<exit_code, call, top_k>>
       ELSE UsageExitWithHelp(<<<<"stderr", "Unknown command">>>>)
    /\ UNCHANGED <<ops, lex_hits, vec_hits, final_hits, arm, feature_vec, disk, embedVars,
                   prev, raw_args, args, override, env_home, env_memory, stdin>>

\* lines 727-730: the exit code of the process
MainExit ==
    /\ pc = "returned"
    /\ IF result = "err"
       THEN /\ Say("stderr", "Error")
            /\ Exit(1)
       ELSE /\ Exit(0)
            /\ UNCHANGED printed
    /\ UNCHANGED <<result, ops, searchVars, feature_vec, disk, embedVars, prev,
                   raw_args, args, override, env_home, env_memory, stdin, call, path>>

(***************************************************************************)
(* The command handlers main calls, except cmd_search and cmd_embed_all    *)
(* (above).  A frame a save adds has a text; it has an embedding when the  *)
(* put carried one.                                                        *)
(***************************************************************************)
\* the store after one more frame
PutFrame(frames, frame) ==
    [id \in 0..FrameCount(frames) |-> IF id < FrameCount(frames) THEN frames[id] ELSE frame]

\* Memvid::frame_by_id(id): whether it may return Ok; it "fails with a
\* not-found error for out-of-range ids"
FrameByIdMayBeOk(frames, id) == id \in DOMAIN frames

\* lines 33-39: ensure_memory_dir(), the calls it makes to the file system:
\* none when the path has no parent, and create_dir_all("") is Ok at once
EnsureMemoryDirOps(p, ok) ==
    IF Parent(p) = <<>> \/ Parent(p)[1] = <<>> THEN <<>>
    ELSE <<<<"create_dir_all", Parent(p)[1], ok>>>>

\* lines 48-55 and 285-297: ensure_memory_dir()?, then open or create
OpenOrCreate(next) ==
    LET p == GetMemoryPath(override, env_memory, env_home)
    IN  /\ path' = <<p>>
        /\ \/ /\ EnsureMemoryDirOps(p, FALSE) # <<>>
              /\ ops' = ops \o EnsureMemoryDirOps(p, FALSE)
              /\ Return("err")
              /\ UNCHANGED <<disk, mem>>
           \/ /\ ops' = ops \o EnsureMemoryDirOps(p, TRUE)
                          \o <<Op(IF disk.exists THEN "open" ELSE "create", FALSE)>>
              /\ Return("err")
              /\ UNCHANGED <<disk, mem>>
           \/ /\ ops' = ops \o EnsureMemoryDirOps(p, TRUE)
                          \o <<Op(IF disk.exists THEN "open" ELSE "create", TRUE)>>
              /\ disk' = [disk EXCEPT !.exists = TRUE]
              /\ mem' = disk.frames
              /\ pc' = next
              /\ UNCHANGED result

\* lines 48-55 of cmd_save
CmdSaveOpen ==
    /\ pc = "cmd_save"
    /\ OpenOrCreate("save_put")
    /\ UNCHANGED <<searchVars, feature_vec, frames_to_embed, embed_i, embeddings,
                   warnings, added, prev, mainVars, printed>>

\* what a put is given
PutArg(with_embedding) ==
    [content |-> call.content, title |-> call.title, tags |-> call.tags,
     embedding |-> with_embedding]

\* lines 57-90: the put, with an embedding when feature "vec" is built in and
\* the embedder loads and encodes
CmdSavePut ==
    /\ pc = "save_put"
    /\ \E embedded \in (IF feature_vec THEN {"yes", "no_embedder", "encode_failed"}
                        ELSE {"no_feature"}) :
         /\ printed' = IF embedded \in {"no_embedder", "encode_failed"}
                       THEN Append(printed, <<"stderr", "Warning: saving without">>)
                       ELSE printed
         /\ \/ /\ ops' = Append(ops, <<"put", PutArg(embedded = "yes"), FALSE>>)
               /\ Return("err")
               /\ UNCHANGED mem
            \/ /\ ops' = Append(ops, <<"put", PutArg(embedded = "yes"), TRUE>>)
               /\ mem' = PutFrame(mem, [emb  |-> IF embedded = "yes" THEN "some" ELSE "none",
                                        text |-> "text"])
               /\ pc' = "save_commit"
               /\ UNCHANGED result
    /\ UNCHANGED <<searchVars, feature_vec, disk, frames_to_embed, embed_i, embeddings,
                   warnings, added, prev, mainVars, path>>

\* lines 92-95: mem.commit()?
CmdSaveCommit ==
    /\ pc = "save_commit"
    /\ \/ /\ ops' = Append(ops, Op("commit", FALSE))
          /\ Return("err")
          /\ UNCHANGED <<disk, printed>>
       \/ /\ ops' = Append(ops, Op("commit", TRUE))
          /\ disk' = [disk EXCEPT !.frames = mem]
          /\ Say("stdout", "Saved to memory")
          /\ Return("ok")
    /\ UNCHANGED <<searchVars, feature_vec, embedVars, prev, mainVars, path>>

\* the start of cmd_stats, cmd_list_recent, cmd_inspect and cmd_doctor:
\* get_memory_path(), and the return when the file does not exist
NoMemoryFile ==
    /\ ~disk.exists
    /\ Say("stdout", "No memory file found")
    /\ Return("ok")
    /\ UNCHANGED ops

\* lines 226-248: cmd_stats
CmdStats ==
    /\ pc = "cmd_stats"
    /\ path' = <<GetMemoryPath(override, env_memory, env_home)>>
    /\ \/ NoMemoryFile
       \/ /\ disk.exists
          /\ \/ /\ ops' = Append(ops, Op("open", FALSE))
                /\ Return("err")
                /\ UNCHANGED printed
             \/ /\ ops' = ops \o <<Op("open", TRUE), Op("stats", FALSE)>>
                /\ Return("err")
                /\ UNCHANGED printed
             \/ /\ ops' = ops \o <<Op("open", TRUE), Op("stats", TRUE)>>
                /\ Say("stdout", "Memory Statistics")
                /\ Return("ok")
    /\ UNCHANGED <<searchVars, feature_vec, disk, embedVars, prev, mainVars>>

\* an inspect that propagates the error of frame_by_id (frame_by_id(frame_id)?)
CmdInspectPropagating ==
    /\ pc = "cmd_inspect"
    /\ path' = <<GetMemoryPath(override, env_memory, env_home)>>
    /\ \/ NoMemoryFile
       \/ /\ disk.exists
          /\ \/ /\ ops' = Append(ops, Op("open", FALSE))
                /\ Return("err")
                /\ UNCHANGED printed
             \/ /\ ops' = ops \o <<Op("open", TRUE), <<"frame_by_id", call.frame_id, FALSE>>>>
                /\ Return("err")
                /\ UNCHANGED printed
             \/ /\ FrameByIdMayBeOk(disk.frames, call.frame_id)
                /\ ops' = ops \o <<Op("open", TRUE), <<"frame_by_id", call.frame_id, TRUE>>>>
                /\ Say("stdout", "Frame")
                /\ Return("ok")
    /\ UNCHANGED <<searchVars, feature_vec, disk, embedVars, prev, mainVars>>

\* lines 381-420: cmd_inspect; the Err arm of the match prints and falls
\* through to Ok(())
CmdInspect ==
    /\ pc = "cmd_inspect"
    /\ path' = <<GetMemoryPath(override, env_memory, env_home)>>
    /\ \/ NoMemoryFile
       \/ /\ disk.exists
          /\ \/ /\ ops' = Append(ops, Op("open", FALSE))
                /\ Return("err")
                /\ UNCHANGED printed
             \/ /\ ops' = ops \o <<Op("open", TRUE), <<"frame_by_id", call.frame_id, FALSE>>>>
                /\ Say("stdout", "Error getting frame")
                /\ Return("ok")
             \/ /\ FrameByIdMayBeOk(disk.frames, call.frame_id)
                /\ ops' = ops \o <<Op("open", TRUE), <<"frame_by_id", call.frame_id, TRUE>>>>
                /\ Say("stdout", "Frame")
                /\ Return("ok")
    /\ UNCHANGED <<searchVars, feature_vec, disk, embedVars, prev, mainVars>>

\* lines 265-280: the loop over start..total; ok[i] is whether frame_by_id(i)
\* returned Ok
ListOps(start, total, ok) == [n \in 1..(total - start) |-> <<"frame_by_id", start + n - 1, ok[start + n - 1]>>]

ListLines(start, total, ok) ==
    [n \in 1..(total - start) |->
        <<"stdout", IF ok[start + n - 1] THEN "frame" ELSE "ERROR">>]

\* lines 250-282: cmd_list_recent
CmdListRecent ==
    /\ pc = "cmd_list_recent"
    /\ path' = <<GetMemoryPath(override, env_memory, env_home)>>
    /\ \/ NoMemoryFile
       \/ /\ disk.exists
          /\ \/ /\ ops' = Append(ops, Op("open", FALSE))
                /\ Return("err")
                /\ UNCHANGED printed
             \/ /\ ops' = ops \o <<Op("open", TRUE), Op("stats", FALSE)>>
                /\ Return("err")
                /\ UNCHANGED printed
             \/ LET total == FrameCount(disk.frames)
                    start == IF total > call.count THEN total - call.count ELSE 0
                IN  \E ok \in [start..(total - 1) -> BOOLEAN] :
                      /\ ops' = ops \o <<Op("open", TRUE), Op("stats", TRUE)>>
                                    \o ListOps(start, total, ok)
                      /\ printed' = printed \o <<<<"stdout", "Total frames">>>>
                                            \o ListLines(start, total, ok)
                      /\ Return("ok")
    /\ UNCHANGED <<searchVars, feature_vec, disk, embedVars, prev, mainVars>>

\* lines 423-450: cmd_doctor; the rebuilt indexes are not part of the model
CmdDoctor ==
    /\ pc = "cmd_doctor"
    /\ path' = <<GetMemoryPath(override, env_memory, env_home)>>
    /\ \/ NoMemoryFile
       \/ /\ disk.exists
          /\ \E ok \in BOOLEAN :
               /\ ops' = Append(ops, <<"doctor", <<call.rebuild_vec, call.rebuild_lex>>, ok>>)
               /\ IF ok
                  THEN /\ printed' = printed \o <<<<"stdout", "Running doctor">>,
                                                  <<"stdout", "Doctor completed">>>>
                       /\ Return("ok")
                  ELSE /\ Say("stdout", "Running doctor")
                       /\ Return("err")
    /\ UNCHANGED <<searchVars, feature_vec, disk, embedVars, prev, mainVars>>

\* lines 285-297 of cmd_test_save_search
CmdTestOpen ==
    /\ pc = "cmd_test_save_search"
    /\ OpenOrCreate("test_steps")
    /\ UNCHANGED <<searchVars, feature_vec, frames_to_embed, embed_i, embeddings,
                   warnings, added, prev, mainVars, printed>>

\* lines 299-366: the store calls after the open, in call order
TestSteps == <<"stats", "put", "commit", "search", "open", "search">>

\* lines 299-379: each call returns Ok until one (if any) returns Err
CmdTestSteps ==
    /\ pc = "test_steps"
    /\ \E n \in 0..Len(TestSteps) :
         /\ ops' = ops \o [i \in 1..n |-> Op(TestSteps[i], TRUE)]
                       \o (IF n < Len(TestSteps) THEN <<Op(TestSteps[n + 1], FALSE)>> ELSE <<>>)
         /\ mem' = IF n >= 2 THEN PutFrame(mem, [emb |-> "none", text |-> "text"]) ELSE mem
         /\ disk' = IF n >= 3 THEN [disk EXCEPT !.frames = mem'] ELSE disk
         /\ Return(IF n < Len(TestSteps) THEN "err" ELSE "ok")
    /\ UNCHANGED <<searchVars, feature_vec, frames_to_embed, embed_i, embeddings,
                   warnings, added, prev, mainVars, path, printed>>

(***************************************************************************)
(* The process from the start of main.  The argument lists are those of    *)
(* five families (the global flag among commands, the global flag given    *)
(* twice, save, search, and the commands that read a store), each with the *)
(* inputs its commands use.                                                *)
(* cmd_search and cmd_embed_all are entered here and run in SpecSearch and *)
(* SpecEmbedAll.                                                           *)
(***************************************************************************)
MaxArgs == 3        \* most arguments after the program name or the command

Prog == Str("memvid")

\* argument lists: `first`, then at most n of the tokens
ArgLists(first, tokens, n) == {first \o t : t \in SeqsUpTo(tokens, n)}

GlobalTokens == GlobalFlags \cup {<<"~", "/", "a", "~">>, Str("b"), Str("stats"), Str("help")}

SaveTokens == {Str("--stdin"), Str("--title"), Str("--tag"), <<"k", "=", "v">>,
               Str("hello"), Str(" ")}

SearchTokens == {Str("--top"), Str("-n"), Str("3"), Str("hello"), Str("-m")}

StoreCommands == {Str("stats"), Str("inspect"), Str("list"), Str("ls"), Str("doctor"),
                  Str("embed-all"), Str("test-save-search")}

StoreTokens == {Str("0"), <<"9", "9", "9">>, Str("x"), Str("--rebuild-vec")}

\* the values given to a repeated global flag
FlagValues == {<<"~", "/", "a", "~">>, Str("b"), Str("-m")}

\* argument lists with the global flag given twice: before, around and after
\* the command
TwiceFlagged ==
    UNION {{<<Prog, f1, v1, f2, v2, c>>, <<Prog, f1, v1, c, f2, v2>>, <<Prog, c, f1, v1, f2, v2>>} :
           f1 \in GlobalFlags, v1 \in FlagValues, f2 \in GlobalFlags, v2 \in FlagValues,
           c \in {Str("stats"), Str("help")}}

\* $HOME: unset, empty, "/", "/h"
Homes == {<<>>, <<<<>>>>, <<Str("/")>>, <<<<"/", "h">>>>}

\* $MEMVID_MEMORY: unset, "~/c~", "d"
Memories == {<<>>, <<<<"~", "/", "c", "~">>>>, <<Str("d")>>}

\* standard input: empty, "world", not valid UTF-8
Stdins == {<<"ok", <<>>>>, <<"ok", Str("world")>>, <<"err", <<>>>>}

\* a store of n frames with a text and no embedding
PlainStore(n) == [exists |-> TRUE, frames |-> [id \in 0..(n - 1) |-> [emb |-> "none", text |-> "text"]]]

InitMain ==
    /\ pc = "main"
    /\ result = "none"
    /\ ops = <<>>
    /\ top_k = 0
    /\ InitSearchVars
    /\ InitEmbedVars
    /\ prev = <<>>
    /\ args = <<>>
    /\ override = <<>>
    /\ exit_code = -1
    /\ call = <<>>
    /\ path = <<>>
    /\ printed = <<>>
    /\ \/ /\ raw_args \in ArgLists(<<Prog>>, GlobalTokens, MaxArgs)
          /\ env_home \in Homes
          /\ env_memory \in Memories
          /\ stdin = <<"ok", <<>>>>
          /\ disk = NoStore
          /\ feature_vec = TRUE
       \/ /\ raw_args \in TwiceFlagged
          /\ env_home \in Homes
          /\ env_memory \in Memories
          /\ stdin = <<"ok", <<>>>>
          /\ disk = NoStore
          /\ feature_vec = TRUE
       \/ /\ raw_args \in ArgLists(<<Prog, Str("save")>>, SaveTokens, MaxArgs)
          /\ env_home = <<<<"/", "h">>>>
          /\ env_memory = <<>>
          /\ stdin \in Stdins
          /\ disk \in {NoStore, PlainStore(1)}
          /\ feature_vec \in BOOLEAN
       \/ /\ \E c \in {Str("search"), Str("find")} :
               raw_args \in ArgLists(<<Prog, c>>, SearchTokens, MaxArgs)
          /\ env_home = <<<<"/", "h">>>>
          /\ env_memory = <<>>
          /\ stdin = <<"ok", <<>>>>
          /\ disk = NoStore
          /\ feature_vec = TRUE
       \/ /\ \E c \in StoreCommands : raw_args \in ArgLists(<<Prog, c>>, StoreTokens, 1)
          /\ env_home = <<<<"/", "h">>>>
          /\ env_memory \in {<<>>, <<Str("d")>>}
          /\ stdin = <<"ok", <<>>>>
          /\ disk \in {NoStore} \cup {PlainStore(n) : n \in 0..MaxFrames}
          /\ feature_vec \in BOOLEAN

NextMain ==
    \/ ParseGlobalFlags
    \/ Dispatch
    \/ CmdSaveOpen
    \/ CmdSavePut
    \/ CmdSaveCommit
    \/ CmdStats
    \/ CmdInspect
    \/ CmdListRecent
    \/ CmdDoctor
    \/ CmdTestOpen
    \/ CmdTestSteps
    \/ MainExit

SpecMain == InitMain /\ [][NextMain]_vars

(***************************************************************************)
(* Properties of merge_results_rrf and cmd_search.                         *)
(***************************************************************************)
\* the distinct elements of s, each at its first position
RECURSIVE Dedup(_, _)
Dedup(s, seen) ==
    IF s = <<>> THEN <<>>
    ELSE IF Head(s) \in seen THEN Dedup(Tail(s), seen)
         ELSE <<Head(s)>> \o Dedup(Tail(s), seen \cup {Head(s)})

\* frame ids in the order first encountered: lexical scan, then vector scan
FirstSeen(lex, vec) == Dedup(IdsOf(lex) \o IdsOf(vec), {})

\* the position of x in the duplicate-free sequence s
PosIn(s, x) == CHOOSE i \in DOMAIN s : s[i] = x

\* a ranks before b: a higher summed score, or the same and seen first
RanksBefore(a, b, scores, seen) ==
    \/ scores[a] > scores[b]
    \/ scores[a] = scores[b] /\ PosIn(seen, a) < PosIn(seen, b)

\* out is the first k of the distinct ids of lex and vec in ranking order
IsRrfOrder(out, lex, vec, k) ==
    LET scores == RrfScores(lex, vec)
        seen   == FirstSeen(lex, vec)
    IN  /\ Len(out) = Min(k, Len(seen))
        /\ \A i \in DOMAIN out : out[i] \in DOMAIN scores
        /\ \A i, j \in DOMAIN out : i < j => RanksBefore(out[i], out[j], scores, seen)
        /\ \A i \in DOMAIN out : \A x \in DOMAIN scores :
              (\A j \in DOMAIN out : out[j] # x) => RanksBefore(out[i], x, scores, seen)

\* C1: merge_results_rrf returns the distinct frame ids by descending summed
\* score, equal scores in the order first encountered (lexical scan, then
\* vector scan), cut to top_k
C1_RrfOrdering ==
    (pc = "returned" /\ arm = "merged")
        => IsRrfOrder(IdsOf(final_hits), lex_hits, vec_hits, top_k)

\* C5: after a successful lexical search on a store with a vector index, a
\* failure of the embedder, of the query embedding or of the vector search
\* leaves the command successful with exactly the first top_k lexical hits;
\* no path returns more than top_k hits
C5_Degradation ==
    /\ (arm \in {"embedder_failed", "encode_failed", "vec_search_failed"})
         => /\ pc = "returned"
            /\ result = "ok"
            /\ Len(final_hits) = Min(top_k, Len(lex_hits))
            /\ \A i \in DOMAIN final_hits : final_hits[i] = lex_hits[i]
    /\ (pc \in {"search_embedder", "search_encode", "search_vec"}) => result = "none"
    /\ (result = "err") => LastFailed(ops, {"open", "search", "stats"})
    /\ Len(final_hits) <= top_k

C5_Witness ==
    /\ pc = "returned"
    /\ arm = "vec_search_failed"
    /\ result = "ok"
    /\ top_k > 0
    /\ Len(lex_hits) > top_k

(***************************************************************************)
(* Properties of cmd_embed_all.                                            *)
(***************************************************************************)
\* the store's write operations
WriteOps == {"add_embeddings", "commit", "put", "create"}

\* the writes in the log, in call order
Writes(log) == Restrict(OpNames(log), WriteOps)

\* s is strictly ascending
Ascending(s) == \A i, j \in DOMAIN s : i < j => s[i] < s[j]

\* the embedding loop has processed every task
LoopDone == frames_to_embed # <<>> /\ embed_i = Len(frames_to_embed)

\* the store reports an embedding for every frame with non-blank text
NoPending(frames) ==
    \A id \in DOMAIN frames : frames[id].text = "text" => frames[id].emb = "some"

\* C2: when the provider fails for exactly one of the N pending records the
\* run goes on: the other N-1 pairs, in scan order, are what add_embeddings
\* receives; they have embeddings once the store accepted them and the commit
\* succeeded; the failing record has no embedding during or after the run
C2_PartialFailure ==
    /\ (pc = "returned" /\ result = "err")
         => (ops = <<>> \/ LastFailed(ops, {"open", "stats", "add_embeddings", "commit"}))
    /\ (warnings # <<>> /\ embed_i < Len(frames_to_embed))
         => (pc = "embed_encode" /\ result = "none")
    /\ (LoopDone /\ Len(warnings) = 1) =>
         LET failing == warnings[1]
             others  == Restrict(frames_to_embed, Range(frames_to_embed) \ {failing})
         IN  /\ Len(others) = Len(frames_to_embed) - 1
             /\ embeddings = others
             /\ others # <<>> => pc \in {"embed_add", "embed_commit", "returned"}
             /\ \A i \in DOMAIN ops :
                   ops[i][1] = "add_embeddings" => ops[i][2] = others
             /\ (others # <<>> /\ pc \in {"embed_commit", "returned"})
                   => \E i \in DOMAIN ops : ops[i][1] = "add_embeddings"
             /\ (pc = "returned" /\ result = "ok" /\ added = Len(others))
                   => \A id \in Range(others) : disk.frames[id].emb = "some"
             /\ mem[failing].emb # "some"
             /\ disk.frames[failing].emb # "some"

C2_Witness ==
    /\ pc = "returned"
    /\ result = "ok"
    /\ Len(frames_to_embed) = 3
    /\ warnings = <<1>>
    /\ added = 2
    /\ disk.frames[0].emb = "some"
    /\ disk.frames[2].emb = "some"

\* C3 as stated: the second of two successive runs adds 0 embeddings (here
\* even only after a first run that returned successfully)
C3_SecondRunAddsZero ==
    (prev # <<>> /\ prev[1].result = "ok" /\ pc = "returned") => added = 0

\* C3 amended: the second of two successive runs adds 0 embeddings when the
\* first run left no record pending (the store reports an embedding for
\* every record with non-blank text), which is the case when the first run
\* returned successfully, had no provider failure and the store accepted
\* every submitted pair
C3_Idempotent ==
    prev # <<>> =>
        /\ (/\ prev[1].result = "ok"
            /\ prev[1].warnings = <<>>
            /\ prev[1].added = Len(prev[1].frames_to_embed))
              => NoPending(prev[1].disk)
        /\ NoPending(prev[1].disk)
              => /\ added = 0
                 /\ frames_to_embed = <<>>
                 /\ Writes(ops) = <<>>
                 /\ disk.frames = prev[1].disk

C3_Witness ==
    /\ prev # <<>>
    /\ prev[1].result = "ok"
    /\ prev[1].added = 2
    /\ prev[1].warnings = <<>>
    /\ pc = "returned"
    /\ result = "ok"
    /\ Len(ops) > 2
    /\ added = 0

\* C4: no store write before add_embeddings; add_embeddings is called at most
\* once, with every successful pair in ascending scan order; commit is called
\* once, and only after add_embeddings succeeded; with no task, or no
\* successful task, neither is called and the run succeeds; when
\* add_embeddings fails commit is not called and the run fails
C4_WriteProtocol ==
    /\ Writes(ops) \in {<<>>, <<"add_embeddings">>, <<"add_embeddings", "commit">>}
    /\ (pc \in {"cmd_embed_all", "embed_open", "embed_scan", "embed_encode", "embed_add"})
         => Writes(ops) = <<>>
    /\ \A i \in DOMAIN ops : ops[i][1] = "add_embeddings" =>
          /\ ops[i][2] = Restrict(frames_to_embed, Range(frames_to_embed) \ Range(warnings))
          /\ ops[i][2] # <<>>
          /\ Ascending(ops[i][2])
          /\ LoopDone
    /\ \A i \in DOMAIN ops : ops[i][1] = "commit" =>
          (i > 1 /\ ops[i - 1][1] = "add_embeddings" /\ ops[i - 1][3])
    /\ (pc = "embed_commit") => (Writes(ops) = <<"add_embeddings">> /\ result = "none")
    /\ (pc = "returned" /\ Writes(ops) = <<"add_embeddings">>)
         => (result = "err" /\ ~ops[Len(ops)][3])
    /\ \A i \in DOMAIN ops : (ops[i][1] = "add_embeddings" /\ ~ops[i][3])
          => (i = Len(ops) /\ pc = "returned" /\ result = "err")
    /\ (pc = "returned" /\ result = "ok" /\ embeddings # <<>>)
         => Writes(ops) = <<"add_embeddings", "commit">>
    /\ (pc \in {"embed_encode", "embed_add", "embed_commit"}) => frames_to_embed # <<>>
    /\ (pc \in {"embed_add", "embed_commit"}) => embeddings # <<>>
    /\ (ops # <<>> /\ ops[Len(ops)][1] \in {"frame_embedding", "frame_text_by_id"})
         => result # "err"
    /\ (LoopDone /\ embeddings = <<>>)
         => (pc = "returned" /\ result = "ok" /\ Writes(ops) = <<>>)

C4_Witness ==
    /\ pc = "returned"
    /\ result = "ok"
    /\ Len(ops) > 2
    /\ ops[Len(ops)][1] = "commit"
    /\ ops[Len(ops) - 1] = <<"add_embeddings", <<0, 2>>, TRUE>>
    /\ warnings = <<1>>

(***************************************************************************)
(* Properties of main and get_memory_path.                                 *)
(***************************************************************************)
\* main has called the handler of the command `name`
Called(name) == DOMAIN call # {} /\ call.name = name

\* s without the elements at the indices in S
RECURSIVE Without(_, _, _)
Without(s, S, i) ==
    IF i > Len(s) THEN <<>>
    ELSE IF i \in S THEN Without(s, S, i + 1)
         ELSE <<s[i]>> \o Without(s, S, i + 1)

\* raw[i] is a global flag that is not the value of the flag before it
RECURSIVE IsFlagPos(_, _)
IsFlagPos(raw, i) ==
    i >= 2 /\ i <= Len(raw) /\ raw[i] \in GlobalFlags /\ ~IsFlagPos(raw, i - 1)

\* the value given to the first global flag: <<>> when there is none
FirstFlagValue(raw) ==
    LET S == {i \in 2..(Len(raw) - 1) : raw[i] \in GlobalFlags}
    IN  IF S = {} THEN <<>>
        ELSE <<raw[1 + CHOOSE i \in S : \A j \in S : i <= j]>>

\* HOME, "." when it is unset
HomeOf(home) == IF home = <<>> THEN Str(".") ELSE home[1]

\* v with its leading '~' (if any) replaced by HOME
LeadingTilde(v, home) == IF v # <<>> /\ v[1] = "~" THEN HomeOf(home) \o Tail(v) ELSE v

\* the components of a path, and whether it starts at the root
RECURSIVE Components(_, _)
Components(p, cur) ==
    IF p = <<>> THEN (IF cur = <<>> THEN <<>> ELSE <<cur>>)
    ELSE IF Head(p) = "/"
         THEN (IF cur = <<>> THEN <<>> ELSE <<cur>>) \o Components(Tail(p), <<>>)
         ELSE Components(Tail(p), Append(cur, Head(p)))

\* the two strings name the same path (PathBuf equality)
SamePath(a, b) ==
    /\ StartsWith(a, "/") <=> StartsWith(b, "/")
    /\ Components(a, <<>>) = Components(b, <<>>)

\* <HOME>/.memvid/claude.mv2
HomeMemvid(home) == HomeOf(home) \o <<"/", ".memvid", "/", "claude.mv2">>

\* the path of highest priority, `default` when there is no override and no
\* environment value
ByPrecedence(default) ==
    IF FirstFlagValue(raw_args) # <<>> THEN LeadingTilde(FirstFlagValue(raw_args)[1], env_home)
    ELSE IF env_memory # <<>> THEN LeadingTilde(env_memory[1], env_home)
         ELSE default

\* C6 as stated: every path get_memory_path returns is the override when one
\* was given, else the MEMVID_MEMORY value, else <HOME>/.memvid/claude.mv2,
\* with only a leading '~' replaced by HOME ("." when HOME is unset)
C6_PathPrecedenceAsStated ==
    path # <<>> => SamePath(path[1], ByPrecedence(HomeMemvid(env_home)))

\* C6, amended: as stated, except that with an empty HOME the default is
\* the relative path .memvid/claude.mv2
C6_PathPrecedence ==
    path # <<>> =>
        SamePath(path[1],
                 ByPrecedence(IF env_home = <<<<>>>> THEN <<".memvid", "/", "claude.mv2">>
                              ELSE HomeMemvid(env_home)))

\* C6: an override "~/a~" wins over MEMVID_MEMORY; its leading '~' is HOME,
\* its last one is kept
C6_Witness ==
    /\ pc = "exited"
    /\ override # <<>>
    /\ env_memory # <<>>
    /\ env_home = <<<<"/", "h">>>>
    /\ path = <<<<"/", "h", "/", "a", "~">>>>

\* inspect opened the store and frame_by_id failed for an id out of range
InspectNotFound ==
    /\ Called("inspect")
    /\ call.frame_id \notin DOMAIN disk.frames
    /\ Len(ops) = 2
    /\ ops[1] = Op("open", TRUE)
    /\ ops[2] = <<"frame_by_id", call.frame_id, FALSE>>

\* s holds the message
Has(s, message) == \E i \in DOMAIN s : s[i] = message

\* C7 as stated: inspect of an id out of range reports a not-found error and
\* the process ends with exit code 1, without a crash
C7_InspectNotFoundExitsOne ==
    (pc = "exited" /\ InspectNotFound) =>
        /\ Has(printed, <<"stdout", "Error getting frame">>)
        /\ exit_code = 1

\* C7, amended: inspect of an id out of range, on a store that opens, reports
\* the error on standard output and the process ends with exit code 0,
\* without a crash and with nothing on standard error
C7_InspectNotFound ==
    /\ (pc = "exited" /\ InspectNotFound) =>
          /\ Has(printed, <<"stdout", "Error getting frame">>)
          /\ \A i \in DOMAIN printed : printed[i][1] = "stdout"
          /\ exit_code = 0
    /\ (pc = "exited" /\ Called("inspect")) => exit_code \in {0, 1}
    /\ (pc = "returned" /\ Called("inspect") /\ disk.exists
          /\ call.frame_id \notin DOMAIN disk.frames /\ ops[1] = Op("open", TRUE)) =>
          InspectNotFound /\ result = "ok"

\* C7: inspect 999 on a store of MaxFrames frames has ended
C7_Witness ==
    /\ pc = "exited"
    /\ InspectNotFound
    /\ call.frame_id = 999
    /\ FrameCount(disk.frames) = MaxFrames
    /\ exit_code = 0

\* the tokens after the command
Rest == ArgsFrom(args, 2)

\* --stdin is given as a flag: it is not the value of --title, -t or --tag
StdinFlagGiven ==
    \E i \in DOMAIN Rest :
        /\ Rest[i] = Str("--stdin")
        /\ i > 1 => Rest[i - 1] \notin {Str("--title"), Str("-t"), Str("--tag")}

\* C8: whenever save is given the --stdin flag, the content saved is exactly
\* the text read from standard input, whatever content tokens there are
C8_StdinOverrides ==
    (Called("save") /\ StdinFlagGiven) => call.content = stdin[2]

\* the positions of --top and -n among the tokens after the command
CountOptions == {i \in DOMAIN Rest : Rest[i] \in {Str("--top"), Str("-n")}}

\* C9: when search is given one --top/-n followed by a token, before or after
\* the query tokens, the count is that token parsed (5 when it does not
\* parse) and the query is the other tokens
C9_SearchCount ==
    (Called("search") /\ Cardinality(CountOptions) = 1) =>
        LET i == CHOOSE j \in CountOptions : TRUE
        IN  i < Len(Rest) =>
               /\ top_k = UnwrapOr(ParseUnsigned(Rest[i + 1]), 5)
               /\ call.query = JoinSpace(Without(Rest, {i, i + 1}, 1))

\* the indices of the global flags read as flags, and of their values
Stripped(raw) == {i \in DOMAIN raw : IsFlagPos(raw, i) \/ IsFlagPos(raw, i - 1)}

\* the indices of every --memory and -m, and of the tokens that follow them
EveryOccurrence(raw) ==
    {i \in 2..Len(raw) : raw[i] \in GlobalFlags \/ (i > 2 /\ raw[i - 1] \in GlobalFlags)}

\* C10 as stated: every --memory/-m and the token after it are removed, the
\* other tokens keep their order; when the last token is --memory/-m the
\* process exits with code 1 and no command is dispatched
C10_StripsEveryOccurrence ==
    pc # "main" =>
        IF Len(raw_args) >= 2 /\ raw_args[Len(raw_args)] \in GlobalFlags
        THEN pc = "exited" /\ exit_code = 1 /\ DOMAIN call = {}
        ELSE args = Without(raw_args, EveryOccurrence(raw_args), 1)

\* C10, amended: the same of every --memory/-m that is not itself the value
\* of the --memory/-m before it
C10_GlobalFlagStripping ==
    pc # "main" =>
        IF IsFlagPos(raw_args, Len(raw_args))
        THEN pc = "exited" /\ exit_code = 1 /\ DOMAIN call = {} /\ ops = <<>>
        ELSE args = Without(raw_args, Stripped(raw_args), 1)

\* C10: a flag after the command name was stripped with its value, and the
\* command was dispatched
C10_Witness ==
    /\ DOMAIN call # {}
    /\ Len(args) = Len(raw_args) - 2
    /\ \E i \in 3..(Len(raw_args) - 1) : IsFlagPos(raw_args, i)

(***************************************************************************)
(* Usage errors.                                                           *)
(***************************************************************************)
\* the argument list without the global flags and their values
Given == Without(raw_args, Stripped(raw_args), 1)

\* the tokens of Given after the command
GivenRest == ArgsFrom(Given, 2)

\* the commands of the build
Commands ==
    {Str("save"), Str("search"), Str("find"), Str("stats"), Str("inspect"), Str("list"),
     Str("ls"), Str("test-save-search"), Str("help"), Str("--help"), Str("-h")}
    \cup (IF feature_vec THEN {Str("doctor"), Str("embed-all")} ELSE {})

\* s is a decimal number (with an optional sign "+")
IsNumber(s) ==
    LET d == IF s # <<>> /\ s[1] = "+" THEN Tail(s) ELSE s
    IN  d # <<>> /\ \A i \in DOMAIN d : d[i] \in Digits

\* the command line is a usage error: the cases that can be told from the
\* arguments without parsing the options of save and search
UsageErrorGiven ==
    \/ IsFlagPos(raw_args, Len(raw_args))                   \* --memory without a value
    \/ Len(Given) < 2                                       \* no command
    \/ Len(Given) >= 2 /\ Given[2] \notin Commands         \* unknown command
    \/ /\ Len(Given) >= 2 /\ Given[2] = Str("inspect")      \* inspect: no id, or not a number
       /\ (Len(Given) < 3 \/ ~IsNumber(Given[3]))
    \/ /\ Len(Given) >= 2 /\ Given[2] = Str("save")
       /\ \/ GivenRest = <<>>                               \* save: no content
          \/ GivenRest \in {<<Str(" ")>>, <<Str("--title"), Str("hello")>>}  \* blank; a title only
          \/ GivenRest[Len(GivenRest)] \in {Str("--title"), Str("-t"), Str("--tag")}
             /\ \A i \in 1..(Len(GivenRest) - 1) : GivenRest[i] = Str("--stdin")
    \/ /\ Len(Given) >= 2 /\ Given[2] \in {Str("search"), Str("find")}
       /\ GivenRest = <<>>                                  \* search: no query

\* the messages of the usage errors
UsageMessages ==
    {"Missing path for --memory flag", "Missing title value", "Missing tag value",
     "No content provided", "No search query provided", "Usage: memvid inspect <frame_id>",
     "Invalid frame ID", "Unknown command"}

\* a usage error was reported
UsageReported == \E i \in DOMAIN printed : printed[i][1] = "stderr" /\ printed[i][2] \in UsageMessages

\* C11: after a usage error the process has exited with a non-zero code, no
\* command handler was called and no store operation was performed; and a
\* usage error is reported only by a process that has performed none
C11_UsageErrorsTouchNoStore ==
    /\ (pc = "exited" /\ UsageErrorGiven) =>
          /\ exit_code # 0
          /\ DOMAIN call = {}
          /\ ops = <<>>
    /\ UsageReported =>
          /\ pc = "exited"
          /\ exit_code # 0
          /\ DOMAIN call = {}
          /\ ops = <<>>
    /\ (pc \notin {"main", "dispatch"} /\ UsageErrorGiven) => pc = "exited"

\* C11: inspect with an id that is not a number, on a store that holds
\* frames, has exited
C11_Witness ==
    /\ pc = "exited"
    /\ UsageErrorGiven
    /\ Has(printed, <<"stderr", "Invalid frame ID">>)
    /\ disk.exists
    /\ FrameCount(disk.frames) > 0
    /\ exit_code = 1
    /\ ops = <<>>

(***************************************************************************)
(* merge_results_rrf: the output holds no frame twice.                     *)
(***************************************************************************)
\* no element of s occurs twice
NoRepeat(s) == \A i, j \in DOMAIN s : s[i] = s[j] => i = j

\* s has an element twice
Repeats(s) == ~NoRepeat(s)

\* C12: the output of merge_results_rrf holds no frame_id twice, is no longer
\* than top_k nor than the number of distinct frame_ids of the two inputs,
\* and is empty when both inputs are
C12_RrfDedup ==
    arm = "merged" =>
        /\ NoRepeat(IdsOf(final_hits))
        /\ Len(final_hits) <= top_k
        /\ Len(final_hits) <= Cardinality(Range(IdsOf(lex_hits)) \cup Range(IdsOf(vec_hits)))
        /\ (lex_hits = <<>> /\ vec_hits = <<>>) => final_hits = <<>>

\* C12: both inputs repeat a frame_id, top_k leaves room for more than the
\* one frame the output holds
C12_Witness ==
    /\ arm = "merged"
    /\ Repeats(IdsOf(lex_hits))
    /\ Repeats(IdsOf(vec_hits))
    /\ IdsOf(lex_hits) = IdsOf(vec_hits)
    /\ top_k >= 2
    /\ Len(final_hits) = 1

(***************************************************************************)
(* MEMORY_PATH_OVERRIDE is written once.                                   *)
(***************************************************************************)
\* the values of the global flags read as flags, in order
RECURSIVE ValuesGiven(_, _)
ValuesGiven(raw, i) ==
    IF i >= Len(raw) THEN <<>>
    ELSE IF IsFlagPos(raw, i) THEN <<raw[i + 1]>> \o ValuesGiven(raw, i + 2)
         ELSE ValuesGiven(raw, i + 1)

\* C13: once the global flags are parsed the override is the first value
\* given (none when no flag has a value); it changes only while the global
\* flags are parsed, before any command handler is called; and a path that
\* get_memory_path has returned is the path it returns from then on
C13_WriteOnce ==
    /\ [](pc # "main" =>
             override = IF ValuesGiven(raw_args, 2) = <<>> THEN <<>>
                        ELSE <<LeadingTilde(ValuesGiven(raw_args, 2)[1], env_home)>>)
    /\ [][override' # override => (pc = "main" /\ override = <<>> /\ DOMAIN call = {})]_vars
    /\ [][path # <<>> => path' = path]_vars

\* C13: two different values were given, the first one is the override and
\* the path get_memory_path returned
C13_Witness ==
    /\ pc = "exited"
    /\ Len(ValuesGiven(raw_args, 2)) = 2
    /\ ValuesGiven(raw_args, 2)[1] = Str("b")
    /\ ValuesGiven(raw_args, 2)[2] = <<"~", "/", "a", "~">>
    /\ override = <<Str("b")>>
    /\ path = override
    /\ env_memory # <<>>

====
